---- MODULE Spec2Model ----
(***************************************************************************)
(* A model of ddns.py, a dynamic-DNS updater: resolve three credentials,   *)
(* look up the public IP, look up the zone's apex A record, and PATCH the  *)
(* record when the two addresses differ.                                   *)
(*                                                                         *)
(* Text is modelled as a sequence of tokens.  A token is one character     *)
(* ("a", "=", " ", ".") or a word of several characters that holds neither *)
(* "=" nor white space ("api_key").  IP addresses and record ids are       *)
(* opaque strings: the program only copies and compares them.              *)
(***************************************************************************)
EXTENDS Integers, Sequences, FiniteSets, TLC

VARIABLES
    dotenv,        \* the .env path beside the program: [kind, lines]
    environ,       \* os.environ restricted to the three keys
    world_ip,      \* the address api.ipify.org reports for this device
    zone_records,  \* the provider's A records matching the zone name, in list order
    run,           \* number of the current process run
    prev,          \* how the previous run ended: [exit_code, public_ip, zone_records]
    pc,            \* position of the current run in __main__
    api_key,       \* __main__ local
    name,          \* __main__ local
    zone_id,       \* __main__ local
    public_ip,     \* __main__ local
    existing_ip,   \* __main__ local
    record_id,     \* __main__ local
    req,           \* what __http_request last returned in this run: <<>> or <<response>>
    calls,         \* the HTTP requests this run has issued, in order
    outcomes,      \* what the network did with each of them
    stdout,        \* the credential lines this run printed
    exit_code      \* <<>> while the run lasts, then <<code>>

vars == <<dotenv, environ, world_ip, zone_records, run, prev, pc, api_key, name,
          zone_id, public_ip, existing_ip, record_id, req, calls, outcomes,
          stdout, exit_code>>

-----------------------------------------------------------------------------
(* Bounds and input sets *)

MaxLines == 3
MaxSecretLen == 7
MaxRecords == 2
MaxRuns == 2

CLOUDFLARE_API == "https://api.cloudflare.com/client/v4/zones"
IPIFY == "https://api.ipify.org"

RequiredKeys == <<"api_key", "zone_name", "zone_id">>
KeySet == {RequiredKeys[i] : i \in 1..Len(RequiredKeys)}

Unset == <<"None">>
NoIp == "None"
NoId == "None"

Min(a, b) == IF a < b THEN a ELSE b
Max(a, b) == IF a > b THEN a ELSE b

SeqsUpTo(S, n) == UNION {[1..k -> S] : k \in 0..n}

-----------------------------------------------------------------------------
(* str.strip, str.split('=', 1) and the look-up of one key in the file *)

IsSpace(c) == c = " "

RECURSIVE lstrip(_)
lstrip(s) == IF s # <<>> /\ IsSpace(Head(s)) THEN lstrip(Tail(s)) ELSE s

RECURSIVE rstrip(_)
rstrip(s) ==
    IF s # <<>> /\ IsSpace(s[Len(s)]) THEN rstrip(SubSeq(s, 1, Len(s) - 1)) ELSE s

strip(s) == rstrip(lstrip(s))

\* index of the first "=" of s, 0 when there is none
RECURSIVE FirstEq(_, _)
FirstEq(s, i) ==
    IF i > Len(s) THEN 0 ELSE IF s[i] = "=" THEN i ELSE FirstEq(s, i + 1)

\* a mutated split: str.split('=') keeps every piece, so l[1] stops at the second "="
split_every_eq(s) ==
    LET i == FirstEq(s, 1)
        rest == SubSeq(s, i + 1, Len(s))
        j == FirstEq(rest, 1)
    IN  IF i = 0 THEN <<s>>
        ELSE <<SubSeq(s, 1, i - 1),
               IF j = 0 THEN rest ELSE SubSeq(rest, 1, j - 1)>>

\* s.split('=', 1): one piece when s has no "=", else the text before and after the first
split_eq_1(s) ==
    LET i == FirstEq(s, 1)
    IN  IF i = 0 THEN <<s>>
        ELSE <<SubSeq(s, 1, i - 1), SubSeq(s, i + 1, Len(s))>>

\* lines = [l.strip().split('=', 1) for l in fo.readlines()]
format_lines(raw) == [i \in 1..Len(raw) |-> split_eq_1(strip(raw[i]))]

\* [l[1] for l in lines if l[0] == key][0]: IndexError when no line names the key, or
\* when any line naming it has no second piece
lookup(lines, key) ==
    LET named == SelectSeq(lines, LAMBDA l : l[1] = <<key>>)
    IN  IF named = <<>> \/ \E i \in 1..Len(named) : Len(named[i]) < 2
        THEN [found |-> FALSE, value |-> Unset]
        ELSE [found |-> TRUE, value |-> named[1][2]]

\* the first of the three keys, in the order the code asks for them, that is not in `has`
RECURSIVE FirstMissing(_, _)
FirstMissing(has, i) ==
    IF i > Len(RequiredKeys) THEN "None"
    ELSE IF RequiredKeys[i] \notin has THEN RequiredKeys[i]
    ELSE FirstMissing(has, i + 1)

UsesDotenv(d) == d.kind = "file"

\* a mutated resolver: a key the file lacks is taken from the environment
read_envs_merged(d, env) ==
    LET lines == format_lines(d.lines)
        fromFile(k) == UsesDotenv(d) /\ lookup(lines, k).found
        val(k) == IF fromFile(k) THEN lookup(lines, k).value ELSE env[k]
        miss == FirstMissing({k \in KeySet : fromFile(k) \/ k \in DOMAIN env}, 1)
    IN  IF miss # "None"
        THEN [ok |-> FALSE, missing |-> miss, source |-> "merged",
              api_key |-> Unset, name |-> Unset, zone_id |-> Unset]
        ELSE [ok |-> TRUE, missing |-> "None", source |-> "merged",
              api_key |-> val("api_key"), name |-> val("zone_name"),
              zone_id |-> val("zone_id")]

\* _read_envs: the three values, or the key whose absence ends the process
read_envs(d, env) ==
    LET lines == format_lines(d.lines)
        inFile == {k \in KeySet : lookup(lines, k).found}
        inEnv == KeySet \cap DOMAIN env
    IN  IF UsesDotenv(d)
        THEN LET miss == FirstMissing(inFile, 1)
             IN  IF miss # "None"
                 THEN [ok |-> FALSE, missing |-> miss, source |-> "file",
                       api_key |-> Unset, name |-> Unset, zone_id |-> Unset]
                 ELSE [ok |-> TRUE, missing |-> "None", source |-> "file",
                       api_key |-> lookup(lines, "api_key").value,
                       name |-> lookup(lines, "zone_name").value,
                       zone_id |-> lookup(lines, "zone_id").value]
        ELSE LET miss == FirstMissing(inEnv, 1)
             IN  IF miss # "None"
                 THEN [ok |-> FALSE, missing |-> miss, source |-> "environ",
                       api_key |-> Unset, name |-> Unset, zone_id |-> Unset]
                 ELSE [ok |-> TRUE, missing |-> "None", source |-> "environ",
                       api_key |-> env["api_key"], name |-> env["zone_name"],
                       zone_id |-> env["zone_id"]]

-----------------------------------------------------------------------------
(* The masked view of a secret: f"{s[:3]}...{s[-3:]}" *)

Dots == <<".", ".", ".">>

\* s[:n]
SliceTo(s, n) == SubSeq(s, 1, Min(n, Len(s)))
\* s[-n:]
SliceLast(s, n) == SubSeq(s, Max(1, Len(s) - n + 1), Len(s))

\* a mutated view: one more character of the tail
masked_wide(s) == SliceTo(s, 3) \o Dots \o SliceLast(s, 4)

masked(s) == SliceTo(s, 3) \o Dots \o SliceLast(s, 3)

-----------------------------------------------------------------------------
(* The network and the provider *)

Ips == {"1.2.3.4", "5.6.7.8"}
Times == {"2024-01-01 at 00:00:00", "2024-01-02 at 00:00:00"}
Statuses == {200, 204, 403, 500}
RecordIds == <<"R1", "R2", "R3", "R4">>

\* the lists the provider may hold: records of distinct ids, any addresses
RecordLists ==
    UNION {{[i \in 1..k |-> [id |-> RecordIds[i], content |-> c[i], comment |-> <<>>]] :
            c \in [1..k -> Ips]} : k \in 0..MaxRecords}

\* what one exchange can come to: a reply of some status, or no reply at all
\* (URLError, timeout); `applied` says whether the provider carried the request out
Outcomes(body) ==
    {[kind |-> "reply", status |-> st, content |-> body, applied |-> (st = 200)] :
        st \in Statuses}
    \cup {[kind |-> "raise", status |-> 0, content |-> body, applied |-> a] :
            a \in BOOLEAN}

\* a mutated wrapper: the except branch hands back what it has instead of exiting
http_request_swallow(o) ==
    <<[status |-> o.status, headers |-> <<>>, content |-> o.content]>>

\* __http_request: <<response>> when urlopen returns (a 2xx reply), <<>> when it raises
\* (HTTPError for any other status, URLError, timeout) and the except branch exits
http_request(o) ==
    IF o.kind = "reply" /\ o.status \in 200..299
    THEN <<[status |-> o.status, headers |-> <<>>, content |-> o.content]>>
    ELSE <<>>

\* a mutated status test: any 2xx passes
status_is_2xx(status) == status \in 200..299

\* req['status'] == 200
status_is_200(status) == status = 200

\* a mutated read of the result list: an empty list reads as "nothing recorded"
first_result_or_none(result) ==
    IF result = <<>>
    THEN [raised |-> FALSE, r_ip |-> NoIp, r_id |-> NoId]
    ELSE [raised |-> FALSE, r_ip |-> result[1].content, r_id |-> result[1].id]

\* a mutated read of the result list: the last element
last_result(result) ==
    IF result = <<>>
    THEN [raised |-> TRUE, r_ip |-> NoIp, r_id |-> NoId]
    ELSE [raised |-> FALSE, r_ip |-> result[Len(result)].content,
          r_id |-> result[Len(result)].id]

\* ans = loads(req['content'])['result'][0]; r_ip, r_id = ans['content'], ans['id']
first_result(result) ==
    IF result = <<>>
    THEN [raised |-> TRUE, r_ip |-> NoIp, r_id |-> NoId]
    ELSE [raised |-> FALSE, r_ip |-> result[1].content, r_id |-> result[1].id]

\* a mutated comparison: update whatever the addresses are
always_update(pub, rec) == TRUE

\* public_ip != existing_ip
ips_differ(pub, rec) == pub # rec

\* a mutated body: the two addresses change places
patch_data_swapped(old_ip, new_ip, dstr) ==
    [comment |-> <<"Updated from ", new_ip, " on ", dstr>>, content |-> old_ip]

\* data = {"comment": f"Updated from {old_ip} on {dstr}", "content": new_ip}
patch_data(old_ip, new_ip, dstr) ==
    [comment |-> <<"Updated from ", old_ip, " on ", dstr>>, content |-> new_ip]

ipify_request ==
    [method |-> "GET", url |-> IPIFY, zone_id |-> <<>>, record_id |-> NoId,
     headers |-> <<>>, data |-> <<>>, params |-> [format |-> "json"]]

zone_request(key, zname, zid) ==
    [method |-> "GET", url |-> CLOUDFLARE_API, zone_id |-> zid, record_id |-> NoId,
     headers |-> [Authorization |-> <<"Bearer ">> \o key], data |-> <<>>,
     params |-> [name |-> zname, type |-> "A"]]

patch_request(key, zid, rid, old_ip, new_ip, dstr) ==
    [method |-> "PATCH", url |-> CLOUDFLARE_API, zone_id |-> zid, record_id |-> rid,
     headers |-> [Authorization |-> <<"Bearer ">> \o key,
                  ContentType |-> "application/json"],
     data |-> patch_data(old_ip, new_ip, dstr), params |-> <<>>]

\* the provider's list once it has carried out a PATCH
apply_patch(records, c) ==
    [i \in 1..Len(records) |->
        IF records[i].id = c.record_id
        THEN [id |-> records[i].id, content |-> c.data.content,
              comment |-> c.data.comment]
        ELSE records[i]]

-----------------------------------------------------------------------------
(* One run of __main__ *)

world == <<dotenv, environ, world_ip, zone_records, run, prev>>
creds == <<api_key, name, zone_id>>

\* exit(code), or the interpreter ending on an uncaught exception (code 1)
Exit(code) == pc' = "exit" /\ exit_code' = <<code>>

ReadEnvs ==
    /\ pc = "read_envs"
    /\ LET r == read_envs(dotenv, environ)
       IN  IF r.ok
           THEN /\ api_key' = r.api_key
                /\ name' = r.name
                /\ zone_id' = r.zone_id
                /\ pc' = "print"
                /\ UNCHANGED <<exit_code, stdout>>
           ELSE /\ Exit(1)
                /\ stdout' = <<<<"Key ", r.missing, " missing">>>>
                /\ UNCHANGED creds
    /\ UNCHANGED <<world, public_ip, existing_ip, record_id, req, calls, outcomes>>

PrintHeader ==
    /\ pc = "print"
    /\ stdout' = <<masked(api_key), name, masked(zone_id)>>
    /\ pc' = "check_public_ip"
    /\ UNCHANGED <<world, creds, public_ip, existing_ip, record_id, req, calls,
                   outcomes, exit_code>>

CheckPublicIp ==
    /\ pc = "check_public_ip"
    /\ \E o \in Outcomes([ip |-> world_ip]) :
          LET r == http_request(o)
          IN  /\ calls' = Append(calls, ipify_request)
              /\ outcomes' = Append(outcomes, o)
              /\ req' = r
              /\ IF r # <<>> /\ status_is_200(r[1].status)
                 THEN /\ public_ip' = r[1].content.ip
                      /\ pc' = "check_zone_apex"
                      /\ UNCHANGED exit_code
                 ELSE /\ Exit(1)
                      /\ UNCHANGED public_ip
    /\ UNCHANGED <<world, creds, existing_ip, record_id, stdout>>

CheckZoneApex ==
    /\ pc = "check_zone_apex"
    /\ \E o \in Outcomes([result |-> zone_records]) :
          LET r == http_request(o)
              ans == first_result(r[1].content.result)
          IN  /\ calls' = Append(calls, zone_request(api_key, name, zone_id))
              /\ outcomes' = Append(outcomes, o)
              /\ req' = r
              /\ IF r # <<>> /\ status_is_200(r[1].status) /\ ~ans.raised
                 THEN /\ existing_ip' = ans.r_ip
                      /\ record_id' = ans.r_id
                      /\ pc' = "compare"
                      /\ UNCHANGED exit_code
                 ELSE /\ Exit(1)
                      /\ UNCHANGED <<existing_ip, record_id>>
    /\ UNCHANGED <<world, creds, public_ip, stdout>>

Compare ==
    /\ pc = "compare"
    /\ IF ips_differ(public_ip, existing_ip)
       THEN pc' = "update_zone_apex" /\ UNCHANGED exit_code
       ELSE Exit(0)
    /\ UNCHANGED <<world, creds, public_ip, existing_ip, record_id, req, calls,
                   outcomes, stdout>>

UpdateZoneApex ==
    /\ pc = "update_zone_apex"
    /\ \E dstr \in Times, o \in Outcomes([success |-> TRUE]) :
          LET c == patch_request(api_key, zone_id, record_id, existing_ip,
                                 public_ip, dstr)
              r == http_request(o)
          IN  /\ calls' = Append(calls, c)
              /\ outcomes' = Append(outcomes, o)
              /\ req' = r
              /\ zone_records' =
                    IF o.applied THEN apply_patch(zone_records, c) ELSE zone_records
              /\ IF r # <<>> /\ status_is_200(r[1].status) THEN Exit(0) ELSE Exit(1)
    /\ UNCHANGED <<dotenv, environ, world_ip, run, prev, creds, public_ip,
                   existing_ip, record_id, stdout>>

\* the scheduler starts the program again; the device's address may have changed
NewRun ==
    /\ pc = "exit"
    /\ run < MaxRuns
    /\ run' = run + 1
    /\ prev' = [exit_code |-> exit_code, public_ip |-> public_ip,
                zone_records |-> zone_records]
    /\ world_ip' \in Ips
    /\ pc' = "read_envs"
    /\ api_key' = Unset /\ name' = Unset /\ zone_id' = Unset
    /\ public_ip' = NoIp /\ existing_ip' = NoIp /\ record_id' = NoId
    /\ req' = <<>> /\ calls' = <<>> /\ outcomes' = <<>> /\ stdout' = <<>>
    /\ exit_code' = <<>>
    /\ UNCHANGED <<dotenv, environ, zone_records>>

Next ==
    \/ ReadEnvs
    \/ PrintHeader
    \/ CheckPublicIp
    \/ CheckZoneApex
    \/ Compare
    \/ UpdateZoneApex
    \/ NewRun

\* the part of a run before the first HTTP exchange
NextStartup ==
    \/ ReadEnvs
    \/ PrintHeader

InitRun ==
    /\ run = 1
    /\ prev = [exit_code |-> <<>>, public_ip |-> NoIp, zone_records |-> <<>>]
    /\ pc = "read_envs"
    /\ api_key = Unset /\ name = Unset /\ zone_id = Unset
    /\ public_ip = NoIp /\ existing_ip = NoIp /\ record_id = NoId
    /\ req = <<>> /\ calls = <<>> /\ outcomes = <<>> /\ stdout = <<>>
    /\ exit_code = <<>>

-----------------------------------------------------------------------------
(* Specification of the whole workflow, over a few credential set-ups *)

Line(k, v) == <<k, "=">> \o v

FileSecret == <<"f", "i", "l", "e", "k", "e", "y">>
EnvSecret == <<"e", "n", "v", "k", "e", "y">>
ZoneName == <<"example.com">>
ZoneId == <<"z", "o", "n", "e", "0", "0", "1">>

FullEnviron ==
    [k \in KeySet |-> IF k = "api_key" THEN EnvSecret
                      ELSE IF k = "zone_name" THEN ZoneName ELSE ZoneId]

Restrict(f, S) == [k \in S |-> f[k]]

Setups ==
    { [dotenv |-> [kind |-> "file",
                   lines |-> <<Line("api_key", FileSecret), Line("zone_name", ZoneName),
                               Line("zone_id", ZoneId)>>],
       environ |-> <<>>],
      [dotenv |-> [kind |-> "file",
                   lines |-> <<Line("api_key", FileSecret), Line("zone_name", ZoneName)>>],
       environ |-> FullEnviron],
      [dotenv |-> [kind |-> "absent", lines |-> <<>>], environ |-> FullEnviron],
      [dotenv |-> [kind |-> "absent", lines |-> <<>>],
       environ |-> Restrict(FullEnviron, KeySet \ {"api_key"})] }

Init ==
    /\ \E s \in Setups : dotenv = s.dotenv /\ environ = s.environ
    /\ world_ip \in Ips
    /\ zone_records \in RecordLists
    /\ InitRun

Spec == Init /\ [][Next]_vars

-----------------------------------------------------------------------------
(* Specification of credential resolution: every file of up to MaxLines well-formed *)
(* lines, against every subset of the three environment variables                  *)

FileValue(k) ==
    IF k = "api_key" THEN FileSecret
    ELSE IF k = "zone_name" THEN <<"file.example">> ELSE <<"f", "z", "1">>

PlainLines == {Line(k, FileValue(k)) : k \in KeySet}

InitCreds ==
    /\ \/ dotenv \in {[kind |-> "file", lines |-> ls] : ls \in SeqsUpTo(PlainLines, MaxLines)}
       \/ dotenv \in {[kind |-> k, lines |-> <<>>] : k \in {"absent", "dir"}}
    /\ environ \in {Restrict(FullEnviron, S) : S \in SUBSET KeySet}
    /\ world_ip = "1.2.3.4"
    /\ zone_records = <<>>
    /\ InitRun

SpecCreds == InitCreds /\ [][NextStartup]_vars

-----------------------------------------------------------------------------
(* Specification of the file parser: files of up to MaxLines lines, where the     *)
(* api_key line comes with and without "=", with "=" in the value, and with white *)
(* space around the line or before the "="                                         *)

Pads == {<<>>, <<" ">>}

ApiKeyTails == {<<>>, <<"=", "a">>, <<"=", "a", "=", "b">>, <<" ", "=", "a">>}

ParseLines ==
    {l \o <<"api_key">> \o t \o r : l \in Pads, t \in ApiKeyTails, r \in Pads}
    \cup {Line("zone_name", <<"n">>), Line("zone_id", <<"z">>)}

InitParse ==
    /\ dotenv \in {[kind |-> "file", lines |-> ls] : ls \in SeqsUpTo(ParseLines, MaxLines)}
    /\ environ = <<>>
    /\ world_ip = "1.2.3.4"
    /\ zone_records = <<>>
    /\ InitRun

SpecParse == InitParse /\ [][NextStartup]_vars

-----------------------------------------------------------------------------
(* Specification of the masked print: secrets of every length up to MaxSecretLen *)

Zeros(n) == [i \in 1..n |-> "0"]

InitMask ==
    /\ dotenv = [kind |-> "absent", lines |-> <<>>]
    /\ environ \in {[k \in KeySet |-> IF k = "api_key" THEN s1
                                      ELSE IF k = "zone_name" THEN ZoneName ELSE s2] :
                    s1 \in SeqsUpTo({"a", "b"}, MaxSecretLen),
                    s2 \in {Zeros(n) : n \in 0..MaxSecretLen}}
    /\ world_ip = "1.2.3.4"
    /\ zone_records = <<>>
    /\ InitRun

SpecMask == InitMask /\ [][NextStartup]_vars

-----------------------------------------------------------------------------
(* Vocabulary of the properties *)

Ok200(o) == o.kind = "reply" /\ o.status = 200
Mutating(c) == c.method # "GET"
PatchCalls == {i \in DOMAIN calls : Mutating(calls[i])}
Exited == pc = "exit" /\ exit_code # <<>>
ExitedNonZero == Exited /\ exit_code # <<0>>

\* both lookups of this run were answered 200 and the zone lookup listed a record
BothLookedUp ==
    /\ Len(outcomes) >= 2
    /\ Ok200(outcomes[1])
    /\ Ok200(outcomes[2])
    /\ outcomes[2].content.result # <<>>

ReturnedIp == outcomes[1].content.ip
ReturnedRecord == outcomes[2].content.result[1]

CallKind(c) ==
    IF c.method = "GET" /\ c.url = IPIFY THEN "GET public IP"
    ELSE IF c.method = "GET" /\ c.url = CLOUDFLARE_API THEN "GET zone records"
    ELSE IF c.method = "PATCH" /\ c.url = CLOUDFLARE_API THEN "PATCH record"
    ELSE "other"

Sequence == <<"GET public IP", "GET zone records", "PATCH record">>

-----------------------------------------------------------------------------
(* C1: a mutating call is issued only when the public IP the IP lookup returned     *)
(* differs from the content of the record the zone lookup returned; when the two    *)
(* are equal the run issues no mutating call and ends with exit code 0.             *)
C1_UpdateOnlyWhenDifferent ==
    /\ \A i \in PatchCalls : BothLookedUp /\ ReturnedIp # ReturnedRecord.content
    /\ (BothLookedUp /\ ReturnedIp = ReturnedRecord.content) =>
          /\ PatchCalls = {}
          /\ pc \in {"compare", "exit"}
          /\ pc = "exit" => exit_code = <<0>>

C1_Witness ==
    /\ BothLookedUp
    /\ ReturnedIp = ReturnedRecord.content
    /\ pc = "exit"
    /\ exit_code = <<0>>

(* C2: with both lookups answered 200 and the public IP different from the recorded *)
(* one, the run issues exactly one PATCH, to the id of the first element of the     *)
(* result list, with content the public IP of this run and a comment holding the    *)
(* recorded IP, and exits 0 when the PATCH is answered 200.                         *)
C2_OnePatchToFirstRecord ==
    (BothLookedUp /\ ReturnedIp # ReturnedRecord.content /\ pc = "exit") =>
        /\ PatchCalls = {3}
        /\ calls[3].method = "PATCH"
        /\ calls[3].url = CLOUDFLARE_API
        /\ calls[3].zone_id = zone_id
        /\ calls[3].record_id = ReturnedRecord.id
        /\ calls[3].data.content = ReturnedIp
        /\ \E j \in DOMAIN calls[3].data.comment :
              calls[3].data.comment[j] = ReturnedRecord.content
        /\ Ok200(outcomes[3]) => exit_code = <<0>>

C2_Witness ==
    /\ BothLookedUp
    /\ Len(outcomes[2].content.result) > 1
    /\ ReturnedRecord.content # outcomes[2].content.result[2].content
    /\ Len(outcomes) = 3
    /\ Ok200(outcomes[3])
    /\ exit_code = <<0>>

(* C3: an exchange answered with a status other than 200, whether the wrapper       *)
(* returns it (204) or the transport raises it (403, 500), ends the run with a      *)
(* non-zero exit code and is the last call of the run; a zone lookup not answered   *)
(* 200 is never followed by a PATCH.                                                *)
C3_Non200IsFatal ==
    /\ \A i \in DOMAIN outcomes :
          (outcomes[i].kind = "reply" /\ outcomes[i].status # 200) =>
              ExitedNonZero /\ Len(calls) = i
    /\ (Len(outcomes) >= 2 /\ ~Ok200(outcomes[2])) => PatchCalls = {}

C3_Witness ==
    /\ Len(outcomes) = 2
    /\ outcomes[2].kind = "reply"
    /\ outcomes[2].status = 204
    /\ ExitedNonZero

(* C4: a zone lookup answered 200 with an empty result list ends the run with a     *)
(* non-zero exit code and no PATCH; it never ends it with exit code 0.              *)
C4_EmptyResultIsFatal ==
    (Len(outcomes) >= 2 /\ Ok200(outcomes[2]) /\ outcomes[2].content.result = <<>>) =>
        /\ ExitedNonZero
        /\ Len(calls) = 2
        /\ PatchCalls = {}

C4_Witness ==
    /\ Len(outcomes) = 2
    /\ Ok200(outcomes[2])
    /\ outcomes[2].content.result = <<>>
    /\ exit_code = <<1>>

(* C6: an exchange in which the transport raises (no reply, or a reply urlopen      *)
(* turns into HTTPError) ends the run with a non-zero exit code at that exchange:   *)
(* the request is issued once, nothing is returned to the caller, no later call is  *)
(* issued; whatever the wrapper returns is a complete {status, headers, content}    *)
(* of the reply received.                                                           *)
C6_TransportFailureIsFatal ==
    /\ \A i \in DOMAIN outcomes :
          (outcomes[i].kind = "raise" \/ outcomes[i].status \notin 200..299) =>
              /\ ExitedNonZero
              /\ Len(calls) = i
              /\ \A j \in 1..(i - 1) : CallKind(calls[j]) # CallKind(calls[i])
              /\ req = <<>>
    /\ req # <<>> =>
          /\ DOMAIN req[1] = {"status", "headers", "content"}
          /\ outcomes[Len(outcomes)].kind = "reply"
          /\ req[1].status = outcomes[Len(outcomes)].status
          /\ req[1].content = outcomes[Len(outcomes)].content

C6_Witness ==
    /\ Len(outcomes) = 2
    /\ outcomes[2].kind = "raise"
    /\ exit_code = <<1>>
    /\ req = <<>>

(* C7 as stated: after a run that ended with exit 0, a following run that observes  *)
(* the same public IP issues no mutating call, exits 0 and leaves the provider's    *)
(* record unchanged.                                                                *)
C7_AsStated ==
    (run > 1 /\ prev.exit_code = <<0>> /\ public_ip # NoIp
        /\ public_ip = prev.public_ip /\ pc = "exit") =>
        /\ PatchCalls = {}
        /\ zone_records = prev.zone_records
        /\ exit_code = <<0>>

(* C7 as amended: after a run that ended with exit 0, a following run that observes *)
(* the same public IP issues no mutating call and leaves the provider's record      *)
(* unchanged; it exits 0 when its zone lookup is answered 200 and non-zero when it  *)
(* is not.                                                                          *)
C7_SecondRunIsNoOp ==
    (run > 1 /\ prev.exit_code = <<0>> /\ public_ip # NoIp
        /\ public_ip = prev.public_ip) =>
        /\ PatchCalls = {}
        /\ pc # "update_zone_apex"
        /\ zone_records = prev.zone_records
        /\ pc = "exit" => /\ Len(outcomes) = 2
                          /\ Ok200(outcomes[2]) => exit_code = <<0>>
                          /\ ~Ok200(outcomes[2]) => ExitedNonZero

C7_Witness ==
    /\ run > 1
    /\ prev.exit_code = <<0>>
    /\ public_ip = prev.public_ip
    /\ zone_records # <<>>
    /\ zone_records[1].comment # <<>>
    /\ pc = "exit"
    /\ exit_code = <<0>>

(* C10: the calls of a run are a prefix of [GET public IP, GET zone records, PATCH   *)
(* record], none before the credentials are resolved (a configuration error leaves *)
(* no call), each after the one before it was answered 200, and the PATCH is the   *)
(* only mutating call and the last thing the run does.                             *)
C10_CallsArePrefix ==
    /\ Len(calls) <= Len(Sequence)
    /\ \A i \in DOMAIN calls : CallKind(calls[i]) = Sequence[i]
    /\ Len(outcomes) = Len(calls)
    /\ \A i \in DOMAIN calls : i > 1 => Ok200(outcomes[i - 1])
    /\ calls # <<>> => /\ pc \notin {"read_envs", "print"}
                       /\ api_key # Unset /\ name # Unset /\ zone_id # Unset
    /\ (pc = "exit" /\ api_key = Unset) => calls = <<>> /\ exit_code = <<1>>
    /\ \A i \in PatchCalls : i = Len(calls) /\ Exited
    /\ Cardinality(PatchCalls) <= 1

C10_Witness ==
    /\ Len(calls) = 3
    /\ CallKind(calls[3]) = "PATCH record"
    /\ pc = "exit"

-----------------------------------------------------------------------------
(* Vocabulary of the credential properties, stated on positions of the text *)

Resolved == pc \notin {"read_envs", "exit"}
ConfigError == pc = "exit" /\ exit_code = <<1>> /\ calls = <<>> /\ api_key = Unset

MinOf(S) == CHOOSE i \in S : \A j \in S : i <= j
EqPositions(t) == {i \in DOMAIN t : t[i] = "="}
HasEq(t) == EqPositions(t) # {}
LeftOfFirstEq(t) == IF HasEq(t) THEN SubSeq(t, 1, MinOf(EqPositions(t)) - 1) ELSE t
RightOfFirstEq(t) == SubSeq(t, MinOf(EqPositions(t)) + 1, Len(t))

\* t without the white space at its two ends
Trimmed(t) ==
    LET inner == {i \in DOMAIN t : t[i] # " "}
    IN  IF inner = {} THEN <<>>
        ELSE SubSeq(t, MinOf(inner), CHOOSE i \in inner : \A j \in inner : j <= i)

\* the run resolved its credentials from the file exactly as `texts`, one text per
\* line, read as "key=value" prescribes
ResolvedFromTexts(texts) ==
    LET Named(k) == {i \in DOMAIN texts : LeftOfFirstEq(texts[i]) = <<k>>}
        Bare(k) == {i \in Named(k) : ~HasEq(texts[i])}
        Given(k) == Named(k) # {} /\ Bare(k) = {}
        ValueFor(k) == RightOfFirstEq(texts[MinOf(Named(k))])
    IN  /\ (\A k \in KeySet : Given(k)) =>
              /\ Resolved
              /\ api_key = ValueFor("api_key")
              /\ name = ValueFor("zone_name")
              /\ zone_id = ValueFor("zone_id")
        /\ (\E k \in KeySet : ~Given(k)) => ConfigError

TrimmedLines == [i \in DOMAIN dotenv.lines |-> Trimmed(dotenv.lines[i])]

(* C5: one source serves all three keys.  With a .env file, the three values are    *)
(* the file's, and a key missing from the file is a configuration error whatever    *)
(* the environment holds; without the file, the three values are the environment's, *)
(* and a key missing from it is a configuration error.                              *)
C5_OneSourceForAllKeys ==
    pc # "read_envs" =>
        IF dotenv.kind = "file"
        THEN ResolvedFromTexts(TrimmedLines)
        ELSE /\ KeySet \subseteq DOMAIN environ =>
                   /\ Resolved
                   /\ api_key = environ["api_key"]
                   /\ name = environ["zone_name"]
                   /\ zone_id = environ["zone_id"]
             /\ ~(KeySet \subseteq DOMAIN environ) => ConfigError

C5_Witness ==
    /\ dotenv.kind = "file"
    /\ \A i \in DOMAIN dotenv.lines : dotenv.lines[i][1] # "zone_id"
    /\ DOMAIN environ = KeySet
    /\ ConfigError

(* C9 as stated: each line is split on its first "=", the text to the left is the   *)
(* key and the text to the right, verbatim, the value; a line naming a required key *)
(* with no "=" counts as that key being missing.                                    *)
C9_AsStated ==
    (pc # "read_envs" /\ dotenv.kind = "file") => ResolvedFromTexts(dotenv.lines)

(* C9 as amended: each line, with the white space at its two ends removed, is split *)
(* on its first "=", the text to the left is the key and the text to the right,     *)
(* with any further "=", the value; a line naming a required key with no "=" counts *)
(* as that key being missing.                                                       *)
C9_SplitOnFirstEqAfterStrip ==
    (pc # "read_envs" /\ dotenv.kind = "file") => ResolvedFromTexts(TrimmedLines)

C9_Witness ==
    /\ Resolved
    /\ api_key = <<"a", "=", "b">>
    /\ \E i \in DOMAIN dotenv.lines :
          dotenv.lines[i] = <<" ", "api_key", "=", "a", "=", "b", " ">>

-----------------------------------------------------------------------------
(* Vocabulary of the masking property: what a printed view shows of a secret *)

Printed == Len(stdout) = 3
DotsAt(v) == CHOOSE d \in 1..(Len(v) - 2) : SubSeq(v, d, d + 2) = Dots
ViewHead(v) == SubSeq(v, 1, DotsAt(v) - 1)
ViewTail(v) == SubSeq(v, DotsAt(v) + 3, Len(v))

\* the view shows the first 3 and the last 3 characters of s, and nothing else
ShowsFirstAndLast3(s, v) ==
    /\ \E d \in 1..(Len(v) - 2) : SubSeq(v, d, d + 2) = Dots
    /\ Len(ViewHead(v)) = Min(3, Len(s))
    /\ Len(ViewTail(v)) = Min(3, Len(s))
    /\ ViewHead(v) = SubSeq(s, 1, Len(ViewHead(v)))
    /\ ViewTail(v) = SubSeq(s, Len(s) - Len(ViewTail(v)) + 1, Len(s))

\* the positions of s that the view does not show
HiddenPositions(s, v) ==
    (1..Len(s)) \ ((1..Len(ViewHead(v))) \cup ((Len(s) - Len(ViewTail(v)) + 1)..Len(s)))

SecretsAndViews == {<<api_key, stdout[1]>>, <<zone_id, stdout[3]>>}

(* C8 as stated: for a secret of any length the printed view consists of its first  *)
(* 3 and last 3 characters only, and is never the complete secret: some character   *)
(* of a secret that has characters is not printed.                                  *)
C8_AsStated ==
    Printed =>
        \A p \in SecretsAndViews :
            /\ ShowsFirstAndLast3(p[1], p[2])
            /\ p[1] # <<>> => HiddenPositions(p[1], p[2]) # {}

(* C8 as amended: for a secret of any length the printed view consists of its first *)
(* 3 and last 3 characters only; it leaves the characters between them unprinted    *)
(* when the secret has 7 characters or more, while every character of a secret of 6 *)
(* characters or fewer is printed, and a secret of 3 characters or fewer is printed *)
(* complete on either side of the dots.                                             *)
C8_MaskHidesOnlyLongSecrets ==
    Printed =>
        \A p \in SecretsAndViews :
            /\ ShowsFirstAndLast3(p[1], p[2])
            /\ Len(p[1]) >= 7 => HiddenPositions(p[1], p[2]) = 4..(Len(p[1]) - 3)
            /\ Len(p[1]) <= 6 => HiddenPositions(p[1], p[2]) = {}
            /\ Len(p[1]) <= 3 => ViewHead(p[2]) = p[1] /\ ViewTail(p[2]) = p[1]

C8_Witness ==
    /\ Printed
    /\ Len(api_key) >= 7
    /\ Len(zone_id) >= 7
    /\ Len(stdout[1]) = 9
    /\ Len(stdout[3]) = 9

====
